---- MODULE Spec2Model ----
(***************************************************************************)
(* Model of the A2A paper-research agent: the JSON-RPC dispatch of         *)
(* server.py, the two delivery modes (handle_send, handle_stream), the     *)
(* executor of agent_executor.py and the LangGraph loop of agent.py.       *)
(*                                                                         *)
(* Library behaviour the source relies on, as modelled here:               *)
(*  - graph.stream(..., stream_mode="values") yields the state after the   *)
(*    input was applied (last message = the user's message) and then the   *)
(*    state after every superstep; a run of more than RecursionLimit       *)
(*    supersteps raises.                                                   *)
(*  - EventQueue.enqueue_event appends; dequeue_event suspends while the   *)
(*    queue is empty. Nothing in the source ever closes a queue.           *)
(*  - TaskUpdater.update_status / add_artifact enqueue one event each;     *)
(*    TaskUpdater.complete enqueues the event that server.py:142 reads as  *)
(*    type "completion".                                                   *)
(*  - RequestContext.from_a2a builds the request context from params or    *)
(*    raises; EventQueue.get_all_events returns the queued events in       *)
(*    order.                                                               *)
(*  - text is a sequence of tokens (words and the blank " ").              *)
(*  - a @tool function's arguments are validated against the schema of its *)
(*    signature before the function runs; ToolNode with default error      *)
(*    handling answers rejected arguments with an error tool message.      *)
(*                                                                         *)
(* Specifications: Spec (the server, one request at a time), SpecPair (the *)
(* same params in both delivery modes, in flight together), SpecFeed       *)
(* (execute over any snapshot stream), SpecAgent (agent.py run as a        *)
(* script, the agent loop driven to its end).                              *)
(***************************************************************************)
EXTENDS Integers, Sequences, FiniteSets, TLC

----------------------------------------------------------------------------
(* Bounds *)

NumSlots == 2
MaxHistory == 2
MaxFeed == 3

Req == 1..NumSlots
Contexts == {"ctx-a", "ctx-b"}

----------------------------------------------------------------------------
(* Text *)

Lower(tok) ==
    CASE tok = "Clarification" -> "clarification"
      [] tok = "More" -> "more"
      [] tok = "Information" -> "information"
      [] OTHER -> tok

LowerText(s) == [i \in 1..Len(s) |-> Lower(s[i])]

Contains(s, p) ==
    \E i \in 0..(Len(s) - Len(p)) : \A j \in 1..Len(p) : s[i + j] = p[j]

Strip(s) ==
    LET idx == {i \in 1..Len(s) : s[i] # " "}
    IN  IF idx = {} THEN <<>>
        ELSE LET lo == CHOOSE i \in idx : \A j \in idx : i <= j
                 hi == CHOOSE i \in idx : \A j \in idx : i >= j
             IN  SubSeq(s, lo, hi)

\* NeedsClarification without the lower-casing of the content.
NeedsClarification_CaseSensitive(content) ==
    \/ Contains(content, <<"clarification">>)
    \/ Contains(content, <<"more", " ", "information">>)

NeedsClarification(content) ==
    \/ Contains(LowerText(content), <<"clarification">>)
    \/ Contains(LowerText(content), <<"more", " ", "information">>)

----------------------------------------------------------------------------
(* Requests *)

\* body: "json" is a body that parses to a JSON object; "garbage" is any other
\* body (request.json() or body.get raises). query: the text of the message in
\* params, "missing" when params hold no message, "unreadable" when extracting
\* it raises. script: what the reasoning engine answers, turn by turn.

Methods == {"message/send", "tasks/send", "message/stream", "tasks/cancel", ""}

QueryTexts ==
    { <<>>, <<" ">>, <<" ", " ">>, <<"papers">>, <<" ", "papers">>,
      <<"More", " ", "Information">>, <<"Clarification">> }

Queries ==
    [kind : {"text"}, text : QueryTexts]
        \cup {[kind |-> "missing", text |-> <<>>],
              [kind |-> "unreadable", text |-> <<>>]}

Forever == -1

\* The arguments of the engine's tool calls, by kind: query is a non-empty
\* string, the empty string or not a string; max_results is an integer >= 1,
\* an integer < 1 or not an integer.
ToolArgs == [query : {"text", "empty", "nonstring"},
             max_results : {"int", "below1", "nonint"}]
GoodArgs == [query |-> "text", max_results |-> "int"]

\* What a search meets: papers, no paper, a network error, malformed upstream
\* data, or the arxiv package missing with its installation failing.
Upstreams == {"papers", "none", "network_error", "malformed", "install_fails"}

EngineScripts ==
    { [rounds |-> 0, final |-> <<"summary">>, args |-> GoodArgs, upstream |-> "papers"],
      [rounds |-> 1, final |-> <<"summary">>, args |-> GoodArgs, upstream |-> "papers"],
      [rounds |-> 0, final |-> <<"need", " ", "more", " ", "information">>,
       args |-> GoodArgs, upstream |-> "papers"],
      [rounds |-> Forever, final |-> <<>>, args |-> GoodArgs, upstream |-> "papers"] }

DefaultQuery == [kind |-> "missing", text |-> <<>>]
DefaultScript ==
    [rounds |-> 0, final |-> <<"summary">>, args |-> GoodArgs, upstream |-> "papers"]

ExecMethods == {"message/send", "tasks/send", "message/stream"}

Requests ==
    [body : {"json"}, method : ExecMethods, query : Queries,
     hasTask : BOOLEAN, ctx : Contexts, script : EngineScripts]
        \cup [body : {"json"}, method : Methods \ ExecMethods, query : {DefaultQuery},
              hasTask : BOOLEAN, ctx : Contexts, script : {DefaultScript}]
        \cup [body : {"garbage"}, method : {""}, query : {DefaultQuery},
              hasTask : {FALSE}, ctx : {"ctx-a"}, script : {DefaultScript}]

NoRequest ==
    [body |-> "none", method |-> "", query |-> DefaultQuery,
     hasTask |-> FALSE, ctx |-> "ctx-a", script |-> DefaultScript]

RequestId(r) == ToString(r)

----------------------------------------------------------------------------
(* Messages and the LangGraph loop (agent.py) *)

RecursionLimit == 25

HumanMessage(text) == [role |-> "user", content |-> text, calls |-> 0]
AIMessage(text, n) == [role |-> "assistant", content |-> text, calls |-> n]
ToolMessage(text) == [role |-> "tool", content |-> text, calls |-> 0]

\* search_arXiv's text result for a query that finds papers.
ToolText == <<"Paper", "1">>
NoPapersText == <<"No", "papers", "found">>
SearchErrorText == <<"An", "error", "occurred">>
ToolErrorText == <<"Error:", "fix", "your", "mistakes">>

\* search_arXiv (agent.py:24-73): the import and the argument checks are
\* outside the try block and raise; inside it every outcome is a text.
SearchArXiv(args, upstream) ==
    IF upstream = "install_fails" THEN [kind |-> "raised", text |-> <<>>]
    ELSE IF args.query # "text" THEN [kind |-> "raised", text |-> <<>>]
    ELSE IF args.max_results = "nonint" THEN [kind |-> "raised", text |-> <<>>]
    ELSE CASE upstream = "papers" -> [kind |-> "text", text |-> ToolText]
           [] upstream = "none" -> [kind |-> "text", text |-> NoPapersText]
           [] OTHER -> [kind |-> "text", text |-> SearchErrorText]

\* The argument schema @tool derives from the signature (query: str,
\* max_results: int) is validated before the function is entered.
SchemaAccepts(args) == args.query # "nonstring" /\ args.max_results # "nonint"

\* The tool node (ToolNode(self.tools), default error handling) running the
\* call: rejected arguments give an error tool message; an exception raised
\* by the function either gives an error tool message or leaves the node,
\* depending on the installed ToolNode (the callers below choose).
ToolNodeRun(args, upstream) ==
    IF ~SchemaAccepts(args) THEN [kind |-> "rejected", text |-> ToolErrorText]
    ELSE LET o == SearchArXiv(args, upstream)
         IN  IF o.kind = "raised" THEN [kind |-> "raised", text |-> ToolErrorText]
             ELSE o

\* call_model: the reasoning engine's answer on its k-th call of this run
\* (k tool rounds already done), as scripted by the environment.
CallModel(script, k) ==
    IF script.rounds = Forever \/ k < script.rounds
    THEN AIMessage(<<>>, 1)
    ELSE AIMessage(script.final, 0)

\* tools_condition: route to the tool node iff the last message has tool calls.
ToolsCondition(msg) == IF msg.calls > 0 THEN "tools" ELSE "end"

\* tool: how the last call of search_arXiv ended ("none" before any call).
GraphStart == [node |-> "input", step |-> 0, round |-> 0, tool |-> "none"]

\* One pull of graph.stream(..., stream_mode="values"): the next snapshot's
\* last message, or the end of the stream, or the recursion-limit error.
GraphPull(g, req) ==
    CASE g.node = "input" ->
            [kind |-> "snapshot", msg |-> HumanMessage(req.query.text),
             g |-> [g EXCEPT !.node = "agent"]]
      [] g.node \in {"agent", "tools"} /\ g.step >= RecursionLimit ->
            [kind |-> "raise", msg |-> HumanMessage(<<>>), g |-> [g EXCEPT !.node = "end"]]
      [] g.node = "agent" /\ g.step < RecursionLimit ->
            LET m == CallModel(req.script, g.round)
            IN  [kind |-> "snapshot", msg |-> m,
                 g |-> [g EXCEPT !.node = ToolsCondition(m), !.step = g.step + 1]]
      [] g.node = "tools" /\ g.step < RecursionLimit ->
            LET o == ToolNodeRun(req.script.args, req.script.upstream)
            IN  [kind |-> "snapshot", msg |-> ToolMessage(o.text),
                 g |-> [g EXCEPT !.node = "agent", !.step = g.step + 1,
                                 !.round = g.round + 1, !.tool = o.kind]]
      [] OTHER ->
            [kind |-> "stop", msg |-> HumanMessage(<<>>), g |-> g]

----------------------------------------------------------------------------
(* Events (a2a.types, as the source uses them) *)

\* TaskId with a new task made for every request.
TaskId_AlwaysNew(req) == "task-new"

TaskId(req) == IF req.hasTask THEN "task-existing" ELSE "task-new"

TaskEvent(req) ==
    [type |-> "task", state |-> "submitted", final |-> FALSE, name |-> "",
     content |-> <<>>, task |-> TaskId(req), ctx |-> req.ctx]

StatusEvent(state, text, final, req) ==
    [type |-> "status", state |-> state, final |-> final, name |-> "",
     content |-> text, task |-> TaskId(req), ctx |-> req.ctx]

ArtifactEvent(name, text, req) ==
    [type |-> "artifact", state |-> "", final |-> FALSE, name |-> name,
     content |-> text, task |-> TaskId(req), ctx |-> req.ctx]

CompletionEvent(req) ==
    [type |-> "completion", state |-> "completed", final |-> TRUE, name |-> "",
     content |-> <<>>, task |-> TaskId(req), ctx |-> req.ctx]

ArtifactName == "paper_search_results"
WorkingText == <<"Searching", "arXiv">>

----------------------------------------------------------------------------
(* Responses (server.py) *)

NoResponse ==
    [kind |-> "none", http |-> 0, id |-> "", code |-> 0, events |-> <<>>, status |-> ""]

ErrorEnvelope(id, code, http) ==
    [kind |-> "error", http |-> http, id |-> id, code |-> code, events |-> <<>>,
     status |-> ""]

\* SuccessEnvelope with the first queued event left out of the result.
SuccessEnvelope_DropsFirst(id, events) ==
    [kind |-> "success", http |-> 200, id |-> id, code |-> 0,
     events |-> IF events = <<>> THEN <<>> ELSE Tail(events),
     status |-> "completed"]

SuccessEnvelope(id, events) ==
    [kind |-> "success", http |-> 200, id |-> id, code |-> 0, events |-> events,
     status |-> "completed"]

StreamingResponse ==
    [kind |-> "stream", http |-> 200, id |-> "", code |-> 0, events |-> <<>>,
     status |-> ""]

Frame(id, event) == [id |-> id, result |-> event]

----------------------------------------------------------------------------
(* State *)

VARIABLES
    request,    \* request[r]: the request handled in slot r
    hpc,        \* position of handle_a2a_request / handle_send / handle_stream,
                \* or of agent.py's script
    epc,        \* position of executor.execute for the request
    cpc,        \* position of event_generator (streaming consumer)
    graph,      \* position of the LangGraph run started by agent.stream
    last,       \* last_message of the snapshot being handled by execute
    queue,      \* EventQueue of the request: events not yet dequeued
    emitted,    \* every event enqueued for the request, in order
    frames,     \* SSE frames sent to the client
    response,   \* HTTP response returned by the handler
    pulls,      \* number of snapshots pulled from agent.stream
    fault,      \* the failure the run met in a collaborator, "none" if none
    memory      \* MemorySaver: thread_id -> message history

vars == <<request, hpc, epc, cpc, graph, last, queue, emitted, frames, response,
          pulls, fault, memory>>

Init ==
    /\ request = [r \in Req |-> NoRequest]
    /\ hpc = [r \in Req |-> "idle"]
    /\ epc = [r \in Req |-> "none"]
    /\ cpc = [r \in Req |-> "none"]
    /\ graph = [r \in Req |-> GraphStart]
    /\ last = [r \in Req |-> HumanMessage(<<>>)]
    /\ queue = [r \in Req |-> <<>>]
    /\ emitted = [r \in Req |-> <<>>]
    /\ frames = [r \in Req |-> <<>>]
    /\ response = [r \in Req |-> NoResponse]
    /\ pulls = [r \in Req |-> 0]
    /\ fault = [r \in Req |-> "none"]
    /\ memory = [c \in Contexts |-> <<>>]

\* The executor of slot r has stopped: it returned or it raised.
ExecStopped(r) == epc[r] \in {"returned", "raised_invalid", "raised_internal"}

\* Nothing in slot r can take a step any more.
Quiescent(r) ==
    /\ hpc[r] \in {"idle", "responded"}
    /\ epc[r] = "none" \/ ExecStopped(r)
    /\ cpc[r] \in {"none", "closed"} \/ (cpc[r] = "wait" /\ queue[r] = <<>>)

----------------------------------------------------------------------------
(* server.py: handle_a2a_request *)

\* The lowest free slot takes the next request.
FreeSlot(r) ==
    /\ hpc[r] = "idle"
    /\ \A s \in Req : s < r => hpc[s] # "idle"

\* A client posts a request. The server takes it when no other request is in
\* progress; the thread it names has room for another turn.
Arrive(r, req) ==
    /\ \A s \in Req : hpc[s] = "idle"
    /\ FreeSlot(r)
    /\ Len(memory[req.ctx]) < MaxHistory
    /\ request' = [request EXCEPT ![r] = req]
    /\ hpc' = [hpc EXCEPT ![r] = "received"]
    /\ UNCHANGED <<epc, cpc, graph, last, queue, emitted, frames, response, pulls,
                   fault, memory>>

\* The request of slot r can make no further step (its response was returned,
\* its executor stopped, its consumer is closed or left waiting): the client
\* goes away and the request's objects are dropped.
Release(r) ==
    /\ hpc[r] = "responded"
    /\ Quiescent(r)
    /\ request' = [request EXCEPT ![r] = NoRequest]
    /\ hpc' = [hpc EXCEPT ![r] = "idle"]
    /\ epc' = [epc EXCEPT ![r] = "none"]
    /\ cpc' = [cpc EXCEPT ![r] = "none"]
    /\ graph' = [graph EXCEPT ![r] = GraphStart]
    /\ last' = [last EXCEPT ![r] = HumanMessage(<<>>)]
    /\ queue' = [queue EXCEPT ![r] = <<>>]
    /\ emitted' = [emitted EXCEPT ![r] = <<>>]
    /\ frames' = [frames EXCEPT ![r] = <<>>]
    /\ response' = [response EXCEPT ![r] = NoResponse]
    /\ pulls' = [pulls EXCEPT ![r] = 0]
    /\ fault' = [fault EXCEPT ![r] = "none"]
    /\ UNCHANGED memory

\* The outer handler's except clause (server.py:64-74).
UnhandledEnvelope == ErrorEnvelope("", -32603, 500)

MethodNotFound(r) == ErrorEnvelope(RequestId(r), -32601, 404)

\* Route with every method other than message/stream taken as a send.
Route_DefaultsToSend(method) ==
    IF method = "message/stream" THEN "stream" ELSE "send"

Route(method) ==
    IF method \in {"message/send", "tasks/send"} THEN "send"
    ELSE IF method = "message/stream" THEN "stream"
    ELSE "unknown"

Dispatch(r) ==
    /\ hpc[r] = "received"
    /\ IF request[r].body # "json"
       THEN /\ response' = [response EXCEPT ![r] = UnhandledEnvelope]
            /\ hpc' = [hpc EXCEPT ![r] = "responded"]
       ELSE IF Route(request[r].method) = "unknown"
       THEN /\ response' = [response EXCEPT ![r] = MethodNotFound(r)]
            /\ hpc' = [hpc EXCEPT ![r] = "responded"]
       ELSE /\ hpc' = [hpc EXCEPT ![r] = Route(request[r].method)]
            /\ UNCHANGED response
    /\ UNCHANGED <<request, epc, cpc, graph, last, queue, emitted, frames, pulls,
                   fault, memory>>

----------------------------------------------------------------------------
(* agent_executor.py: PaperAgentExecutor *)

\* context.get_user_input(): the text of the message, "" when there is none.
GetUserInput(req) == req.query.text

\* ValidateRequest without the strip(): only the empty text is rejected.
ValidateRequest_NoStrip(req) ==
    IF req.query.kind = "unreadable" THEN TRUE
    ELSE GetUserInput(req) = <<>>

\* _validate_request: TRUE when validation fails.
ValidateRequest(req) ==
    IF req.query.kind = "unreadable" THEN TRUE
    ELSE GetUserInput(req) = <<>> \/ Strip(GetUserInput(req)) = <<>>

Enqueue(r, event) ==
    /\ queue' = [queue EXCEPT ![r] = Append(@, event)]
    /\ emitted' = [emitted EXCEPT ![r] = Append(@, event)]

\* execute, lines 36-39.
ExecValidate(r) ==
    /\ epc[r] = "validate"
    /\ epc' = [epc EXCEPT ![r] =
                 IF ValidateRequest(request[r]) THEN "raised_invalid" ELSE "task"]
    /\ UNCHANGED <<request, hpc, cpc, graph, last, queue, emitted, frames, response,
                   pulls, fault, memory>>

\* ExecTask with the new task never enqueued.
ExecTask_NoEnqueue(r) ==
    /\ epc[r] = "task"
    /\ epc' = [epc EXCEPT ![r] = "loop"]
    /\ UNCHANGED <<request, hpc, cpc, graph, last, queue, emitted, frames, response,
                   pulls, fault, memory>>

\* execute, lines 45-56.
ExecTask(r) ==
    /\ epc[r] = "task"
    /\ IF request[r].hasTask
       THEN UNCHANGED <<queue, emitted>>
       ELSE Enqueue(r, TaskEvent(request[r]))
    /\ epc' = [epc EXCEPT ![r] = "loop"]
    /\ UNCHANGED <<request, hpc, cpc, graph, last, frames, response, pulls, fault,
                   memory>>

\* OnSnapshot that passes over the user's message and waits for the assistant's.
OnSnapshot_SkipsUser(msg) ==
    IF msg.role = "assistant" /\ msg.calls > 0 THEN "emit_working"
    ELSE IF msg.role = "assistant" /\ msg.content # <<>>
         THEN IF NeedsClarification(msg.content) THEN "emit_input_required"
              ELSE "emit_artifact"
         ELSE "loop"

\* OnSnapshot with the content test made before the tool-call test.
OnSnapshot_ContentFirst(msg) ==
    IF msg.content # <<>>
    THEN IF NeedsClarification(msg.content) THEN "emit_input_required"
         ELSE "emit_artifact"
    ELSE IF msg.role = "assistant" /\ msg.calls > 0 THEN "emit_working"
         ELSE "loop"

\* OnSnapshot with the add_artifact call forgotten: final content goes straight
\* to complete().
OnSnapshot_SkipsArtifact(msg) ==
    IF msg.role = "assistant" /\ msg.calls > 0 THEN "emit_working"
    ELSE IF msg.content # <<>>
         THEN IF NeedsClarification(msg.content) THEN "emit_input_required"
              ELSE "emit_complete"
         ELSE "loop"

\* The branch execute takes on a snapshot's last message (lines 65-80).
OnSnapshot(msg) ==
    IF msg.role = "assistant" /\ msg.calls > 0 THEN "emit_working"
    ELSE IF msg.content # <<>>
         THEN IF NeedsClarification(msg.content) THEN "emit_input_required"
              ELSE "emit_artifact"
         ELSE "loop"

\* execute, line 59: one iteration of the for loop pulls the next snapshot from
\* agent.stream; the pull may raise (reasoning failure, recursion limit).
ExecPull(r) ==
    /\ epc[r] = "loop"
    /\ pulls' = [pulls EXCEPT ![r] = @ + 1]
    /\ \E fails \in BOOLEAN :
         LET p == GraphPull(graph[r], request[r])
             c == request[r].ctx
         IN  IF fails \/ p.kind = "raise"
             THEN /\ epc' = [epc EXCEPT ![r] = "raised_internal"]
                  /\ fault' = [fault EXCEPT ![r] = IF fails THEN "pull" ELSE @]
                  /\ UNCHANGED <<graph, last, memory>>
             ELSE IF p.kind = "stop"
             THEN /\ epc' = [epc EXCEPT ![r] = "returned"]
                  /\ UNCHANGED <<graph, last, memory, fault>>
             ELSE /\ UNCHANGED fault
                  /\ graph' = [graph EXCEPT ![r] = p.g]
                  /\ last' = [last EXCEPT ![r] = p.msg]
                  /\ memory' = [memory EXCEPT ![c] =
                                  Append(@, [role |-> p.msg.role, by |-> r])]
                  /\ epc' = [epc EXCEPT ![r] = OnSnapshot(p.msg)]
    /\ UNCHANGED <<request, hpc, cpc, queue, emitted, frames, response>>

\* The event an emission step of execute enqueues (lines 69-77, 84-93, 98-101, 103).
EmittedEvent(at, msg, req) ==
    CASE at = "emit_working" -> StatusEvent("working", WorkingText, FALSE, req)
      [] at = "emit_input_required" ->
            StatusEvent("input_required", msg.content, TRUE, req)
      [] at = "emit_artifact" -> ArtifactEvent(ArtifactName, msg.content, req)
      [] OTHER -> CompletionEvent(req)

\* Where execute goes after an emission: back to the loop, on to complete(), or
\* out of the loop by break.
\* AfterEmit with the break after the input_required status forgotten.
AfterEmit_NoBreak(at) ==
    CASE at \in {"emit_working", "emit_input_required"} -> "loop"
      [] at = "emit_artifact" -> "emit_complete"
      [] OTHER -> "returned"

AfterEmit(at) ==
    CASE at = "emit_working" -> "loop"
      [] at = "emit_artifact" -> "emit_complete"
      [] OTHER -> "returned"

EmitStates == {"emit_working", "emit_input_required", "emit_artifact", "emit_complete"}

\* execute, lines 69-104: an emission inside the try block; a failing emission is
\* caught at line 106 and re-raised as ServerError(InternalError).
ExecEmit(r) ==
    /\ epc[r] \in EmitStates
    /\ \E fails \in BOOLEAN :
         IF fails
         THEN /\ epc' = [epc EXCEPT ![r] = "raised_internal"]
              /\ fault' = [fault EXCEPT ![r] = epc[r]]
              /\ UNCHANGED <<queue, emitted>>
         ELSE /\ Enqueue(r, EmittedEvent(epc[r], last[r], request[r]))
              /\ epc' = [epc EXCEPT ![r] = AfterEmit(epc[r])]
              /\ UNCHANGED fault
    /\ UNCHANGED <<request, hpc, cpc, graph, last, frames, response, pulls, memory>>

\* cancel, lines 175-191: raises ServerError(UnsupportedOperationError) whatever
\* the task's state. No handler of server.py calls it.
Cancel(taskState) == [raised |-> "UnsupportedOperationError", code |-> -32004]

----------------------------------------------------------------------------
(* server.py: handle_send *)

\* The envelope for an exception in handle_send's try block. The first except
\* clause (line 98) names a2a.types.InvalidParamsError, which is an error model
\* and never the class of the raised ServerError: the exception is answered
\* either by the second clause (lines 109-119) or, when matching the first
\* clause itself raises, by the outer handler (lines 64-74).
SendFailureEnvelopes(r) == {ErrorEnvelope(RequestId(r), -32603, 500), UnhandledEnvelope}

\* handle_send, lines 78-81: build the context and await execute.
SendStart(r) ==
    /\ hpc[r] = "send"
    /\ \E ok \in BOOLEAN :
         IF ok
         THEN /\ hpc' = [hpc EXCEPT ![r] = "send_await"]
              /\ epc' = [epc EXCEPT ![r] = "validate"]
              /\ UNCHANGED response
         ELSE /\ \E env \in SendFailureEnvelopes(r) :
                   response' = [response EXCEPT ![r] = env]
              /\ hpc' = [hpc EXCEPT ![r] = "responded"]
              /\ UNCHANGED epc
    /\ fault' = [fault EXCEPT ![r] = IF epc'[r] = "validate" THEN @ ELSE "context"]
    /\ UNCHANGED <<request, cpc, graph, last, queue, emitted, frames, pulls, memory>>

\* handle_send, lines 83-119: execute has returned or raised.
SendFinish(r) ==
    /\ hpc[r] = "send_await"
    /\ ExecStopped(r)
    /\ IF epc[r] = "returned"
       THEN response' = [response EXCEPT ![r] = SuccessEnvelope(RequestId(r), queue[r])]
       ELSE \E env \in SendFailureEnvelopes(r) :
              response' = [response EXCEPT ![r] = env]
    /\ hpc' = [hpc EXCEPT ![r] = "responded"]
    /\ UNCHANGED <<request, epc, cpc, graph, last, queue, emitted, frames, pulls,
                   fault, memory>>

----------------------------------------------------------------------------
(* server.py: handle_stream *)

\* handle_stream, lines 122-164: build the context, start execute as a background
\* task and return the streaming response. A failure of from_a2a is outside any
\* try of handle_stream and reaches the outer handler.
StreamStart(r) ==
    /\ hpc[r] = "stream"
    /\ \E ok \in BOOLEAN :
         IF ok
         THEN /\ epc' = [epc EXCEPT ![r] = "validate"]
              /\ cpc' = [cpc EXCEPT ![r] = "wait"]
              /\ response' = [response EXCEPT ![r] = StreamingResponse]
         ELSE /\ response' = [response EXCEPT ![r] = UnhandledEnvelope]
              /\ UNCHANGED <<epc, cpc>>
    /\ fault' = [fault EXCEPT ![r] = IF epc'[r] = "validate" THEN @ ELSE "context"]
    /\ hpc' = [hpc EXCEPT ![r] = "responded"]
    /\ UNCHANGED <<request, graph, last, queue, emitted, frames, pulls, memory>>

\* Whether event_generator stops after sending the event (line 142).
SignalsCompletion(event) == event.type = "completion"

\* Consume with everything queued sent as one frame, that of the newest event.
Consume_Coalesces(r) ==
    /\ cpc[r] = "wait"
    /\ queue[r] # <<>>
    /\ frames' = [frames EXCEPT ![r] =
                    Append(@, Frame(RequestId(r), queue[r][Len(queue[r])]))]
    /\ queue' = [queue EXCEPT ![r] = <<>>]
    /\ cpc' = [cpc EXCEPT ![r] =
                 IF SignalsCompletion(queue[r][Len(queue[r])]) THEN "closed" ELSE "wait"]
    /\ UNCHANGED <<request, hpc, epc, graph, last, emitted, response, pulls, fault,
                   memory>>

\* event_generator, lines 130-143: dequeue one event (suspended while the queue
\* is empty), send its frame, stop on completion.
Consume(r) ==
    /\ cpc[r] = "wait"
    /\ queue[r] # <<>>
    /\ frames' = [frames EXCEPT ![r] = Append(@, Frame(RequestId(r), Head(queue[r])))]
    /\ queue' = [queue EXCEPT ![r] = Tail(@)]
    /\ cpc' = [cpc EXCEPT ![r] = IF SignalsCompletion(Head(queue[r])) THEN "closed" ELSE "wait"]
    /\ UNCHANGED <<request, hpc, epc, graph, last, emitted, response, pulls, fault,
                   memory>>

----------------------------------------------------------------------------
(* Specification *)

Next ==
    \/ \E r \in Req, req \in Requests : Arrive(r, req)
    \/ \E r \in Req : Release(r)
    \/ \E r \in Req : Dispatch(r)
    \/ \E r \in Req : SendStart(r)
    \/ \E r \in Req : SendFinish(r)
    \/ \E r \in Req : StreamStart(r)
    \/ \E r \in Req : Consume(r)
    \/ \E r \in Req : ExecValidate(r)
    \/ \E r \in Req : ExecTask(r)
    \/ \E r \in Req : ExecPull(r)
    \/ \E r \in Req : ExecEmit(r)

Spec == Init /\ [][Next]_vars

\* Two requests with the same parameters, one per delivery mode, in flight
\* together.
PairInputs ==
    [body : {"json"}, query : Queries, hasTask : BOOLEAN, ctx : Contexts,
     script : EngineScripts]

InitPair ==
    /\ \E base \in PairInputs, m \in {"message/send", "tasks/send"} :
         request = [r \in Req |->
                      IF r = 1 THEN [body |-> base.body, method |-> m,
                                     query |-> base.query, hasTask |-> base.hasTask,
                                     ctx |-> base.ctx, script |-> base.script]
                      ELSE IF r = 2 THEN [body |-> base.body, method |-> "message/stream",
                                          query |-> base.query, hasTask |-> base.hasTask,
                                          ctx |-> base.ctx, script |-> base.script]
                      ELSE NoRequest]
    /\ hpc = [r \in Req |-> IF r \in {1, 2} THEN "received" ELSE "idle"]
    /\ epc = [r \in Req |-> "none"]
    /\ cpc = [r \in Req |-> "none"]
    /\ graph = [r \in Req |-> GraphStart]
    /\ last = [r \in Req |-> HumanMessage(<<>>)]
    /\ queue = [r \in Req |-> <<>>]
    /\ emitted = [r \in Req |-> <<>>]
    /\ frames = [r \in Req |-> <<>>]
    /\ response = [r \in Req |-> NoResponse]
    /\ pulls = [r \in Req |-> 0]
    /\ fault = [r \in Req |-> "none"]
    /\ memory = [c \in Contexts |-> <<>>]

NextPair ==
    \/ \E r \in Req : Dispatch(r)
    \/ \E r \in Req : SendStart(r)
    \/ \E r \in Req : SendFinish(r)
    \/ \E r \in Req : StreamStart(r)
    \/ \E r \in Req : Consume(r)
    \/ \E r \in Req : ExecValidate(r)
    \/ \E r \in Req : ExecTask(r)
    \/ \E r \in Req : ExecPull(r)
    \/ \E r \in Req : ExecEmit(r)

SpecPair == InitPair /\ [][NextPair]_vars

----------------------------------------------------------------------------
(* execute over any snapshot stream *)

\* execute reads only the last message of each snapshot agent.stream yields
\* (agent_executor.py:59-65). Here the stream is any finite sequence of last
\* messages: with and without tool calls, with empty, plain and
\* clarification-seeking content, and tool results.
SnapshotMessages ==
    { AIMessage(<<>>, 1),
      AIMessage(<<"Clarification">>, 1),
      AIMessage(<<"summary">>, 0),
      AIMessage(<<"More", " ", "Information">>, 0),
      AIMessage(<<>>, 0),
      ToolMessage(ToolText) }

Feeds == UNION {[1..n -> SnapshotMessages] : n \in 0..MaxFeed}

FeedStart(f) == [node |-> "feed", step |-> 0, round |-> 0, tool |-> "none", feed |-> f]

\* One pull of the stream: the next snapshot's last message, or the end.
FeedPull(g) ==
    IF g.feed = <<>>
    THEN [kind |-> "stop", msg |-> HumanMessage(<<>>), g |-> g]
    ELSE [kind |-> "snapshot", msg |-> Head(g.feed),
          g |-> [g EXCEPT !.feed = Tail(@), !.step = @ + 1]]

\* execute, line 59, pulling from the given stream; the pull may raise.
ExecPullFeed(r) ==
    /\ epc[r] = "loop"
    /\ pulls' = [pulls EXCEPT ![r] = @ + 1]
    /\ \E fails \in BOOLEAN :
         LET p == FeedPull(graph[r])
         IN  IF fails
             THEN /\ epc' = [epc EXCEPT ![r] = "raised_internal"]
                  /\ fault' = [fault EXCEPT ![r] = "pull"]
                  /\ UNCHANGED <<graph, last>>
             ELSE IF p.kind = "stop"
             THEN /\ epc' = [epc EXCEPT ![r] = "returned"]
                  /\ UNCHANGED <<graph, last, fault>>
             ELSE /\ UNCHANGED fault
                  /\ graph' = [graph EXCEPT ![r] = p.g]
                  /\ last' = [last EXCEPT ![r] = p.msg]
                  /\ epc' = [epc EXCEPT ![r] = OnSnapshot(p.msg)]
    /\ UNCHANGED <<request, hpc, cpc, queue, emitted, frames, response, memory>>

\* One request with a non-blank query, in either delivery mode, whose agent
\* stream is any feed.
InitFeed ==
    /\ \E m \in {"message/send", "message/stream"}, t \in BOOLEAN :
         request = [r \in Req |->
                      IF r = 1 THEN [body |-> "json", method |-> m,
                                     query |-> [kind |-> "text", text |-> <<"papers">>],
                                     hasTask |-> t, ctx |-> "ctx-a",
                                     script |-> DefaultScript]
                      ELSE NoRequest]
    /\ hpc = [r \in Req |-> IF r = 1 THEN "received" ELSE "idle"]
    /\ epc = [r \in Req |-> "none"]
    /\ cpc = [r \in Req |-> "none"]
    /\ \E f \in Feeds : graph = [r \in Req |-> IF r = 1 THEN FeedStart(f) ELSE GraphStart]
    /\ last = [r \in Req |-> HumanMessage(<<>>)]
    /\ queue = [r \in Req |-> <<>>]
    /\ emitted = [r \in Req |-> <<>>]
    /\ frames = [r \in Req |-> <<>>]
    /\ response = [r \in Req |-> NoResponse]
    /\ pulls = [r \in Req |-> 0]
    /\ fault = [r \in Req |-> "none"]
    /\ memory = [c \in Contexts |-> <<>>]

NextFeed ==
    \/ \E r \in Req : Dispatch(r)
    \/ \E r \in Req : SendStart(r)
    \/ \E r \in Req : SendFinish(r)
    \/ \E r \in Req : StreamStart(r)
    \/ \E r \in Req : Consume(r)
    \/ \E r \in Req : ExecValidate(r)
    \/ \E r \in Req : ExecTask(r)
    \/ \E r \in Req : ExecPullFeed(r)
    \/ \E r \in Req : ExecEmit(r)

SpecFeed == InitFeed /\ [][NextFeed]_vars

----------------------------------------------------------------------------
(* agent.py run as a script: the agent loop driven to its end *)

DefaultThread == "default"

\* The engine asks for the tool 0, 1 or 2 times or without end, with any
\* arguments, and the search meets any upstream outcome.
AgentScripts ==
    [rounds : {0, 1, 2, Forever}, final : {<<"summary">>}, args : ToolArgs,
     upstream : Upstreams]

\* agent.py:179-195: the script drains agent.stream, or calls agent.invoke,
\* which runs the same graph to its end. One step is one superstep of the
\* graph: the input, a call of the engine, or a run of the tool node. An
\* exception raised inside search_arXiv leaves the tool node (propagates) or is
\* turned into an error tool message by it.
MainStep(r) ==
    /\ hpc[r] \in {"main_stream", "main_invoke"}
    /\ pulls' = [pulls EXCEPT ![r] = @ + 1]
    /\ \E propagates \in BOOLEAN :
         LET p == GraphPull(graph[r], request[r])
         IN  IF p.kind = "raise"
             THEN /\ hpc' = [hpc EXCEPT ![r] = "main_raised"]
                  /\ UNCHANGED <<graph, last, memory, fault>>
             ELSE IF p.kind = "stop"
             THEN /\ hpc' = [hpc EXCEPT ![r] = "main_done"]
                  /\ UNCHANGED <<graph, last, memory, fault>>
             ELSE IF graph[r].node = "tools" /\ p.g.tool = "raised" /\ propagates
             THEN /\ hpc' = [hpc EXCEPT ![r] = "main_raised"]
                  /\ fault' = [fault EXCEPT ![r] = "tool"]
                  /\ UNCHANGED <<graph, last, memory>>
             ELSE /\ graph' = [graph EXCEPT ![r] = p.g]
                  /\ last' = [last EXCEPT ![r] = p.msg]
                  /\ memory' = [memory EXCEPT ![DefaultThread] =
                                  Append(@, [role |-> p.msg.role, by |-> r])]
                  /\ UNCHANGED <<hpc, fault>>
    /\ UNCHANGED <<request, epc, cpc, queue, emitted, frames, response>>

InitAgent ==
    /\ \E sc \in AgentScripts :
         request = [r \in Req |->
                      IF r = 1 THEN [body |-> "none", method |-> "",
                                     query |-> [kind |-> "text", text |-> <<"papers">>],
                                     hasTask |-> FALSE, ctx |-> DefaultThread,
                                     script |-> sc]
                      ELSE NoRequest]
    /\ \E mode \in {"main_stream", "main_invoke"} :
         hpc = [r \in Req |-> IF r = 1 THEN mode ELSE "idle"]
    /\ epc = [r \in Req |-> "none"]
    /\ cpc = [r \in Req |-> "none"]
    /\ graph = [r \in Req |-> GraphStart]
    /\ last = [r \in Req |-> HumanMessage(<<>>)]
    /\ queue = [r \in Req |-> <<>>]
    /\ emitted = [r \in Req |-> <<>>]
    /\ frames = [r \in Req |-> <<>>]
    /\ response = [r \in Req |-> NoResponse]
    /\ pulls = [r \in Req |-> 0]
    /\ fault = [r \in Req |-> "none"]
    /\ memory = [c \in {DefaultThread} |-> <<>>]

NextAgent == \E r \in Req : MainStep(r)

SpecAgent == InitAgent /\ [][NextAgent]_vars

----------------------------------------------------------------------------
(* Properties *)

IsBlankText(s) == \A i \in 1..Len(s) : s[i] = " "

\* The query is missing, empty or whitespace-only.
BlankQuery(req) ==
    \/ req.query.kind = "missing"
    \/ req.query.kind = "text" /\ IsBlankText(req.query.text)

ArtifactIdx(evs) == {i \in 1..Len(evs) : evs[i].type = "artifact"}
CompletionIdx(evs) == {i \in 1..Len(evs) : evs[i].type = "completion"}

\* execute returned and the task reached the completed state.
CompletedRun(r) == epc[r] = "returned" /\ CompletionIdx(emitted[r]) # {}

EndsFailed(evs) ==
    /\ evs # <<>>
    /\ evs[Len(evs)].type = "status"
    /\ evs[Len(evs)].state = "failed"
    /\ evs[Len(evs)].final

\* The events one delivery mode hands to the client, without framing.
Delivered(r) ==
    IF request[r].method = "message/stream"
    THEN [i \in 1..Len(frames[r]) |-> frames[r][i].result]
    ELSE IF response[r].kind = "success" THEN response[r].events ELSE <<>>

Shape(evs) ==
    [i \in 1..Len(evs) |->
        [type |-> evs[i].type, state |-> evs[i].state, content |-> evs[i].content]]

WithoutTask(evs) == SelectSeq(evs, LAMBDA e : e.type # "task")

\* C1: a request of either delivery mode whose query is missing, empty or
\* whitespace-only is answered with an error envelope of code -32602, and the
\* agent loop is never entered for it.
C1_BlankQueryGetsInvalidParams ==
    \A r \in Req :
        ( /\ request[r].method \in ExecMethods
          /\ BlankQuery(request[r])
          /\ hpc[r] = "responded"
          /\ ExecStopped(r) )
        => /\ response[r].kind = "error"
           /\ response[r].code = -32602
           /\ pulls[r] = 0

\* C2 as stated in the specification: a completed run has exactly one artifact
\* event, named "result", emitted before the completion event.
C2_ArtifactNamedResult ==
    \A r \in Req :
        CompletedRun(r) =>
            /\ Cardinality(ArtifactIdx(emitted[r])) = 1
            /\ \A i \in ArtifactIdx(emitted[r]) :
                  /\ emitted[r][i].name = "result"
                  /\ \A j \in CompletionIdx(emitted[r]) : i < j

\* C2 (amended): a completed run has exactly one artifact event, named
\* "paper_search_results", emitted before the completion event.
C2_OneArtifactBeforeCompletion ==
    \A r \in Req :
        CompletedRun(r) =>
            /\ Cardinality(ArtifactIdx(emitted[r])) = 1
            /\ \A i \in ArtifactIdx(emitted[r]) :
                  /\ emitted[r][i].name = "paper_search_results"
                  /\ \A j \in CompletionIdx(emitted[r]) : i < j

C2_Witness == \E r \in Req : CompletedRun(r) /\ ~BlankQuery(request[r])

\* C3: when the agent loop or an emission fails inside execute, the task's event
\* sequence ends with a final status update of state failed and holds no
\* artifact.
C3_FailureEndsInFailedStatus ==
    \A r \in Req :
        epc[r] = "raised_internal" =>
            /\ EndsFailed(emitted[r])
            /\ ArtifactIdx(emitted[r]) = {}

\* C4: for a reasoning engine that requests tools on every turn, the run makes
\* at most 10 reasoning->tool cycles and then ends with the task failed and no
\* artifact.
C4_ToolsForeverEndsFailed ==
    \A r \in Req :
        ( /\ request[r].script.rounds = Forever
          /\ fault[r] = "none"
          /\ epc[r] \in {"returned", "raised_internal"} )
        => /\ graph[r].round <= 10
           /\ EndsFailed(emitted[r])
           /\ ArtifactIdx(emitted[r]) = {}

\* C5: a cancellation request is answered with the UnsupportedOperation error
\* that cancel raises, and enqueues no event.
C5_CancelIsUnsupportedOperation ==
    \A r \in Req :
        (request[r].method = "tasks/cancel" /\ hpc[r] = "responded")
        => /\ response[r].kind = "error"
           /\ response[r].code = Cancel("any").code
           /\ emitted[r] = <<>>

\* C6: in streaming mode, once the executor has stopped and every event it
\* enqueued was sent, the stream is closed: the consumer is not left waiting on
\* an empty queue that nothing will ever fill.
C6_StreamEndsWhenProducerStops ==
    \A r \in Req :
        (response[r].kind = "stream" /\ ExecStopped(r) /\ queue[r] = <<>>)
        => cpc[r] = "closed"

\* C7: the same request under the same collaborator outcomes delivers the same
\* ordered event list in aggregate mode and in streaming mode.
C7_ModesDeliverSameEvents ==
    \A a, b \in Req :
        ( /\ request[a].method \in {"message/send", "tasks/send"}
          /\ request[b].method = "message/stream"
          /\ request[a].query = request[b].query
          /\ request[a].hasTask = request[b].hasTask
          /\ request[a].ctx = request[b].ctx
          /\ request[a].script = request[b].script
          /\ fault[a] = fault[b]
          /\ hpc[a] = "responded" /\ hpc[b] = "responded"
          /\ Quiescent(a) /\ Quiescent(b) )
        => Delivered(a) = Delivered(b)

\* C8: when the engine requests one tool call and then answers without
\* clarification wording, the status and artifact events are, in order, one
\* working status, one artifact holding the engine's answer, one completion.
C8_ToolThenAnswerEvents ==
    \A r \in Req :
        ( /\ request[r].script.rounds = 1
          /\ request[r].script.final = <<"summary">>
          /\ epc[r] = "returned" )
        => Shape(WithoutTask(emitted[r])) =
             << [type |-> "status", state |-> "working", content |-> WorkingText],
                [type |-> "artifact", state |-> "", content |-> <<"summary">>],
                [type |-> "completion", state |-> "completed", content |-> <<>>] >>

\* C9 as stated in the specification: for a request that references no task,
\* the first two events are the submitted task and then a working status.
C9_SubmittedThenWorking ==
    \A r \in Req :
        (~request[r].hasTask /\ Len(emitted[r]) >= 2)
        => /\ emitted[r][1].type = "task" /\ emitted[r][1].state = "submitted"
           /\ emitted[r][2].type = "status" /\ emitted[r][2].state = "working"

\* C9 (amended): for a request that references no task, the first event is the
\* submitted task, before any status, artifact or completion event, and it is
\* the only task event.
C9_SubmittedFirst ==
    \A r \in Req :
        (~request[r].hasTask /\ emitted[r] # <<>>)
        => /\ emitted[r][1].type = "task" /\ emitted[r][1].state = "submitted"
           /\ \A i \in 2..Len(emitted[r]) : emitted[r][i].type # "task"

C9_Witness == \E r \in Req : ~request[r].hasTask /\ Len(emitted[r]) >= 2

\* C10: a request whose method is none of message/send, tasks/send and
\* message/stream is answered with an error envelope of code -32601 carrying the
\* request's id; the executor and the agent loop are never entered and no event
\* is enqueued.
C10_UnknownMethodNotFound ==
    \A r \in Req :
        (request[r].body = "json" /\ request[r].method \notin ExecMethods)
        => /\ epc[r] = "none" /\ cpc[r] = "none"
           /\ pulls[r] = 0
           /\ emitted[r] = <<>> /\ queue[r] = <<>>
           /\ hpc[r] = "responded" =>
                /\ response[r].kind = "error"
                /\ response[r].code = -32601
                /\ response[r].id = RequestId(r)

C10_Witness ==
    \E r \in Req :
        /\ request[r].body = "json" /\ request[r].method \notin ExecMethods
        /\ hpc[r] = "responded"

SendMethods == {"message/send", "tasks/send"}

\* C11: in aggregate mode, when execute() returns without raising, the response
\* is the success envelope with the request's own id, the status marker
\* "completed" and every event the executor enqueued, in emission order, none
\* lost or duplicated; a success envelope exists only after execute returned.
C11_AggregateReturnsAllEvents ==
    \A r \in Req :
        request[r].method \in SendMethods =>
            /\ (hpc[r] = "responded" /\ epc[r] = "returned") =>
                  /\ response[r].kind = "success"
                  /\ response[r].id = RequestId(r)
                  /\ response[r].status = "completed"
                  /\ response[r].events = emitted[r]
            /\ response[r].kind = "success" => epc[r] = "returned"

C11_Witness ==
    \E r \in Req :
        /\ request[r].method \in SendMethods
        /\ hpc[r] = "responded"
        /\ epc[r] = "returned"
        /\ response[r].kind = "success"
        /\ Len(emitted[r]) >= 2

\* The words of the clarification heuristic, in any letter case.
MentionsClarification(content) ==
    \E i \in 1..Len(content) :
        \/ Lower(content[i]) = "clarification"
        \/ /\ i + 2 <= Len(content)
           /\ Lower(content[i]) = "more"
           /\ content[i + 1] = " "
           /\ Lower(content[i + 2]) = "information"

\* The run of slot r returned after handling a snapshot with final content:
\* no tool calls and a non-empty content.
ReturnedOnFinalContent(r) ==
    /\ epc[r] = "returned"
    /\ pulls[r] > 0
    /\ last[r].calls = 0
    /\ last[r].content # <<>>

StatusIdx(evs, state) ==
    {i \in 1..Len(evs) : evs[i].type = "status" /\ evs[i].state = state}

\* C12: a snapshot with final content that matches the clarification heuristic
\* makes execute emit exactly one input_required status, final, carrying the
\* content, and stop with no artifact and no completion; final content that
\* does not match gives an artifact with the content followed by the
\* completion, and no input_required status.
C12_FinalContentBranches ==
    \A r \in Req :
        ReturnedOnFinalContent(r) =>
            LET evs == emitted[r]
                n == Len(evs)
            IN  IF MentionsClarification(last[r].content)
                THEN /\ StatusIdx(evs, "input_required") = {n}
                     /\ evs[n].final
                     /\ evs[n].content = last[r].content
                     /\ ArtifactIdx(evs) = {}
                     /\ CompletionIdx(evs) = {}
                ELSE /\ ArtifactIdx(evs) = {n - 1}
                     /\ evs[n - 1].content = last[r].content
                     /\ CompletionIdx(evs) = {n}
                     /\ StatusIdx(evs, "input_required") = {}

C12_Witness ==
    \E r \in Req :
        /\ ReturnedOnFinalContent(r)
        /\ MentionsClarification(last[r].content)
        /\ last[r].role = "assistant"
        /\ StatusIdx(emitted[r], "working") # {}
        /\ StatusIdx(emitted[r], "input_required") # {}

IsWorkingStatus(e) == e.type = "status" /\ e.state = "working" /\ ~e.final

\* C13: every snapshot whose last message carries tool calls, whatever its
\* content, makes execute emit one non-final working status and go on with the
\* loop; no artifact, completion or input_required status is emitted for it.
C13_ToolCallsGiveWorkingStatus ==
    [][\A r \in Req :
         /\ (graph'[r] # graph[r] /\ last'[r].calls > 0) => epc'[r] = "emit_working"
         /\ (emitted'[r] # emitted[r] /\ last[r].calls > 0) =>
               /\ epc[r] = "emit_working"
               /\ Len(emitted'[r]) = Len(emitted[r]) + 1
               /\ SubSeq(emitted'[r], 1, Len(emitted[r])) = emitted[r]
               /\ IsWorkingStatus(emitted'[r][Len(emitted'[r])])
               /\ epc'[r] = "loop"]_vars

C13_Witness ==
    \E r \in Req :
        /\ last[r].calls > 0
        /\ MentionsClarification(last[r].content)
        /\ epc[r] = "loop"
        /\ emitted[r] # <<>>
        /\ IsWorkingStatus(emitted[r][Len(emitted[r])])

IsTerminalEvent(e) ==
    \/ e.type = "completion"
    \/ e.type = "status" /\ e.final /\ e.state \in {"input_required", "failed"}

\* execute has pulled at least one snapshot in slot r: last holds a snapshot's
\* last message and no longer its initial value.
PulledSnapshot(r) == last[r] # HumanMessage(<<>>)

TerminalIdx(evs) == {i \in 1..Len(evs) : IsTerminalEvent(evs[i])}

\* C15: once a run has emitted a terminal event (final input_required,
\* completion or final failed status) it emits no further event and pulls no
\* further snapshot; a run emits at most one terminal event.
C15_NothingAfterTerminal ==
    [][\A r \in Req :
         /\ TerminalIdx(emitted[r]) # {} =>
               emitted'[r] = emitted[r] /\ pulls'[r] = pulls[r]
         /\ Cardinality(TerminalIdx(emitted'[r])) <= 1]_vars

C15_Witness ==
    \E r \in Req :
        /\ TerminalIdx(emitted[r]) # {}
        /\ epc[r] = "returned"
        /\ graph[r].feed # <<>>

TaskIdx(evs) == {i \in 1..Len(evs) : evs[i].type = "task"}

\* The threads holding a message written by the run of slot r.
ThreadsOf(r) ==
    {c \in Contexts : \E i \in 1..Len(memory[c]) : memory[c][i].by = r}

\* C16: for a request that references an existing task execute emits no task
\* event and every event carries that task's id and context id; for a request
\* without one, exactly one new task is emitted, before any other event, and
\* every event carries its ids. The agent loop writes only to the thread of
\* the task's context id.
C16_EventsCarryTheTask ==
    \A r \in Req :
        LET evs == emitted[r]
        IN  /\ request[r].hasTask =>
                  /\ TaskIdx(evs) = {}
                  /\ \A i \in 1..Len(evs) :
                        evs[i].task = "task-existing" /\ evs[i].ctx = request[r].ctx
            /\ ~request[r].hasTask =>
                  /\ evs # <<>> => TaskIdx(evs) = {1}
                  /\ pulls[r] > 0 => evs # <<>>
                  /\ \A i \in 1..Len(evs) :
                        /\ evs[i].task = evs[1].task
                        /\ evs[i].task # "task-existing"
                        /\ evs[i].ctx = evs[1].ctx
            /\ ThreadsOf(r) \subseteq {request[r].ctx}
            /\ \A i \in 1..Len(evs) : ThreadsOf(r) \subseteq {evs[i].ctx}

C16_Witness ==
    \E r \in Req :
        /\ request[r].hasTask
        /\ Len(emitted[r]) >= 2
        /\ ThreadsOf(r) # {}

Sent(r) == [i \in 1..Len(frames[r]) |-> frames[r][i].result]

\* C17: in streaming mode the frames sent so far are the first events the
\* executor emitted, in emission order, and the events still queued are the
\* rest: no frame is reordered, duplicated, coalesced or made up, and the
\* consumer closes only when nothing emitted is left unsent, whatever the
\* interleaving of executor and consumer.
C17_FramesFollowEmission ==
    \A r \in Req :
        request[r].method = "message/stream" =>
            /\ Sent(r) \o queue[r] = emitted[r]
            /\ cpc[r] = "closed" => queue[r] = <<>>

C17_Witness ==
    \E r \in Req :
        /\ request[r].method = "message/stream"
        /\ Len(frames[r]) >= 2
        /\ Len(queue[r]) >= 2
        /\ ~ExecStopped(r)

\* The query is missing, empty, whitespace-only, or extracting it raises.
RejectedQuery(req) == BlankQuery(req) \/ req.query.kind = "unreadable"

\* C19: when validation rejects the request, execute changes nothing: the run
\* never gets past validation, no task or other event is enqueued, no snapshot
\* is pulled and no message is appended to any thread.
C19_RejectedRequestChangesNothing ==
    \A r \in Req :
        (request[r].method \in ExecMethods /\ RejectedQuery(request[r])) =>
            /\ epc[r] \in {"none", "validate", "raised_invalid"}
            /\ emitted[r] = <<>>
            /\ queue[r] = <<>>
            /\ pulls[r] = 0
            /\ ThreadsOf(r) = {}

C19_Witness ==
    \E r \in Req :
        /\ epc[r] = "raised_invalid"
        /\ request[r].query.kind = "text"
        /\ Len(request[r].query.text) = 2
        /\ emitted[r] = <<>>

\* The positions of thread c written by the run of slot r.
WrittenBy(c, r) == {i \in 1..Len(memory[c]) : memory[c][i].by = r}

IsInterval(S) == \A i \in S, j \in S : \A k \in i..j : k \in S

C20_ToolNeverRaises ==
    \A r \in Req : graph[r].tool # "raised" /\ fault[r] # "tool"

\* C21: every error envelope returned for a request whose body was parsed
\* carries that request's own id, whichever handler the failure occurs in
\* (dispatch, handle_send, handle_stream before the stream starts); the
\* placeholder id "" appears only when the body could not be parsed.
C21_ErrorEnvelopeCarriesRequestId ==
    \A r \in Req :
        (response[r].kind = "error" /\ request[r].body = "json") =>
            response[r].id = RequestId(r)

====
